---- MODULE Spec2Model ----
(***************************************************************************)
(* Model of gcm_pipeline/gcm_script.py: the scratch-directory lifecycle    *)
(* of gcm() and the in-place rewrite done by remap_partition_results().    *)
(*                                                                         *)
(* Text is modelled down to the characters that decide the behaviour:      *)
(*   token = sequence of one-character strings (no whitespace inside),     *)
(*   line  = sequence of tokens (what str.split() returns for the line),   *)
(*   file  = sequence of lines.                                            *)
(* Paths are sequences of components below the filesystem root.            *)
(***************************************************************************)
EXTENDS Integers, Sequences, FiniteSets, TLC

VARIABLES
    dirs,        \* directories on disk (set of absolute paths)
    files,       \* regular files on disk: absolute path -> content
    ro,          \* directories in which this user may not create entries
    cwd,         \* process working directory (os.getcwd())
    pc,          \* position of the current gcm() call
    runs,        \* number of gcm() calls started so far
    argOutDir,   \* gcm argument output_dir as passed by the caller
    L,           \* locals of gcm(): initial_working_directory, output_dir,
                 \* output_file, scratch_directory, scratch_file,
                 \* formatted_file, key_file (Unbound until assigned)
    made,        \* directory os.makedirs created in this call, or NoPath
    trace,       \* stages entered by this call, in order
    exits,       \* how subprocess.run ended in each external step of this
                 \* call that returned to gcm ("none" otherwise)
    cleanups,    \* executions of _exit_and_cleanup_scratch in this call
    published,   \* where this call's cleanup copied the result, or NoPath
    exc,         \* exception in flight / raised by gcm, or "none"
    alive,       \* child processes subprocess.run has started and not yet
                 \* seen exit, each named by its stage
    rmKey,       \* remap harness: key file content (or why it cannot be read)
    rmPart,      \* remap harness: assignment file content before the call
    rmPhase,     \* remap harness: "input" or "called"
    rmRes        \* remap harness: result of remap_partition_results

vars == <<dirs, files, ro, cwd, pc, runs, argOutDir, L, made, trace, exits,
          cleanups, published, exc, alive, rmKey, rmPart, rmPhase, rmRes>>

pipeVars == <<dirs, files, ro, cwd, pc, runs, argOutDir, L, made, trace, exits,
              cleanups, published, exc, alive>>

rmVars == <<rmKey, rmPart, rmPhase, rmRes>>

-----------------------------------------------------------------------------
(* Bounds *)

\* gcm() calls made one after another by one process
MaxRuns == 2

\* lines in a key file given to the remap harness
MaxKeyLines == 3

\* lines in an assignment file given to the remap harness
MaxPartLines == 4

-----------------------------------------------------------------------------
(* Text: int(), str() and str.split() *)

\* what open(p, 'r') gives: the lines of the file, or the error raised
Unreadable(err) == [ex |-> FALSE, err |-> err, lines |-> <<>>]

Missing == Unreadable("FileNotFoundError")

IsDirectory == Unreadable("IsADirectoryError")

File(lines) == [ex |-> TRUE, err |-> "none", lines |-> lines]

\* a local name of gcm() that has not been assigned yet
Unbound == <<"<unbound>">>

UnboundPath == << <<"<unbound>">> >>

NoPath == << <<"<nopath>">> >>

\* A character is a one-character string; a character outside ASCII is
\* written by its code point, "U+0663". Each row holds the ten characters
\* of one script that int() reads as the digits 0..9 (the characters of
\* Unicode category Nd, as unicodedata of the interpreter lists them).
DigitRows ==
    <<<<"0", "1", "2", "3", "4",
        "5", "6", "7", "8", "9">>,
      <<"U+0660", "U+0661", "U+0662", "U+0663", "U+0664",
        "U+0665", "U+0666", "U+0667", "U+0668", "U+0669">>,
      <<"U+06F0", "U+06F1", "U+06F2", "U+06F3", "U+06F4",
        "U+06F5", "U+06F6", "U+06F7", "U+06F8", "U+06F9">>,
      <<"U+07C0", "U+07C1", "U+07C2", "U+07C3", "U+07C4",
        "U+07C5", "U+07C6", "U+07C7", "U+07C8", "U+07C9">>,
      <<"U+0966", "U+0967", "U+0968", "U+0969", "U+096A",
        "U+096B", "U+096C", "U+096D", "U+096E", "U+096F">>,
      <<"U+09E6", "U+09E7", "U+09E8", "U+09E9", "U+09EA",
        "U+09EB", "U+09EC", "U+09ED", "U+09EE", "U+09EF">>,
      <<"U+0A66", "U+0A67", "U+0A68", "U+0A69", "U+0A6A",
        "U+0A6B", "U+0A6C", "U+0A6D", "U+0A6E", "U+0A6F">>,
      <<"U+0AE6", "U+0AE7", "U+0AE8", "U+0AE9", "U+0AEA",
        "U+0AEB", "U+0AEC", "U+0AED", "U+0AEE", "U+0AEF">>,
      <<"U+0B66", "U+0B67", "U+0B68", "U+0B69", "U+0B6A",
        "U+0B6B", "U+0B6C", "U+0B6D", "U+0B6E", "U+0B6F">>,
      <<"U+0BE6", "U+0BE7", "U+0BE8", "U+0BE9", "U+0BEA",
        "U+0BEB", "U+0BEC", "U+0BED", "U+0BEE", "U+0BEF">>,
      <<"U+0C66", "U+0C67", "U+0C68", "U+0C69", "U+0C6A",
        "U+0C6B", "U+0C6C", "U+0C6D", "U+0C6E", "U+0C6F">>,
      <<"U+0CE6", "U+0CE7", "U+0CE8", "U+0CE9", "U+0CEA",
        "U+0CEB", "U+0CEC", "U+0CED", "U+0CEE", "U+0CEF">>,
      <<"U+0D66", "U+0D67", "U+0D68", "U+0D69", "U+0D6A",
        "U+0D6B", "U+0D6C", "U+0D6D", "U+0D6E", "U+0D6F">>,
      <<"U+0DE6", "U+0DE7", "U+0DE8", "U+0DE9", "U+0DEA",
        "U+0DEB", "U+0DEC", "U+0DED", "U+0DEE", "U+0DEF">>,
      <<"U+0E50", "U+0E51", "U+0E52", "U+0E53", "U+0E54",
        "U+0E55", "U+0E56", "U+0E57", "U+0E58", "U+0E59">>,
      <<"U+0ED0", "U+0ED1", "U+0ED2", "U+0ED3", "U+0ED4",
        "U+0ED5", "U+0ED6", "U+0ED7", "U+0ED8", "U+0ED9">>,
      <<"U+0F20", "U+0F21", "U+0F22", "U+0F23", "U+0F24",
        "U+0F25", "U+0F26", "U+0F27", "U+0F28", "U+0F29">>,
      <<"U+1040", "U+1041", "U+1042", "U+1043", "U+1044",
        "U+1045", "U+1046", "U+1047", "U+1048", "U+1049">>,
      <<"U+1090", "U+1091", "U+1092", "U+1093", "U+1094",
        "U+1095", "U+1096", "U+1097", "U+1098", "U+1099">>,
      <<"U+17E0", "U+17E1", "U+17E2", "U+17E3", "U+17E4",
        "U+17E5", "U+17E6", "U+17E7", "U+17E8", "U+17E9">>,
      <<"U+1810", "U+1811", "U+1812", "U+1813", "U+1814",
        "U+1815", "U+1816", "U+1817", "U+1818", "U+1819">>,
      <<"U+1946", "U+1947", "U+1948", "U+1949", "U+194A",
        "U+194B", "U+194C", "U+194D", "U+194E", "U+194F">>,
      <<"U+19D0", "U+19D1", "U+19D2", "U+19D3", "U+19D4",
        "U+19D5", "U+19D6", "U+19D7", "U+19D8", "U+19D9">>,
      <<"U+1A80", "U+1A81", "U+1A82", "U+1A83", "U+1A84",
        "U+1A85", "U+1A86", "U+1A87", "U+1A88", "U+1A89">>,
      <<"U+1A90", "U+1A91", "U+1A92", "U+1A93", "U+1A94",
        "U+1A95", "U+1A96", "U+1A97", "U+1A98", "U+1A99">>,
      <<"U+1B50", "U+1B51", "U+1B52", "U+1B53", "U+1B54",
        "U+1B55", "U+1B56", "U+1B57", "U+1B58", "U+1B59">>,
      <<"U+1BB0", "U+1BB1", "U+1BB2", "U+1BB3", "U+1BB4",
        "U+1BB5", "U+1BB6", "U+1BB7", "U+1BB8", "U+1BB9">>,
      <<"U+1C40", "U+1C41", "U+1C42", "U+1C43", "U+1C44",
        "U+1C45", "U+1C46", "U+1C47", "U+1C48", "U+1C49">>,
      <<"U+1C50", "U+1C51", "U+1C52", "U+1C53", "U+1C54",
        "U+1C55", "U+1C56", "U+1C57", "U+1C58", "U+1C59">>,
      <<"U+A620", "U+A621", "U+A622", "U+A623", "U+A624",
        "U+A625", "U+A626", "U+A627", "U+A628", "U+A629">>,
      <<"U+A8D0", "U+A8D1", "U+A8D2", "U+A8D3", "U+A8D4",
        "U+A8D5", "U+A8D6", "U+A8D7", "U+A8D8", "U+A8D9">>,
      <<"U+A900", "U+A901", "U+A902", "U+A903", "U+A904",
        "U+A905", "U+A906", "U+A907", "U+A908", "U+A909">>,
      <<"U+A9D0", "U+A9D1", "U+A9D2", "U+A9D3", "U+A9D4",
        "U+A9D5", "U+A9D6", "U+A9D7", "U+A9D8", "U+A9D9">>,
      <<"U+A9F0", "U+A9F1", "U+A9F2", "U+A9F3", "U+A9F4",
        "U+A9F5", "U+A9F6", "U+A9F7", "U+A9F8", "U+A9F9">>,
      <<"U+AA50", "U+AA51", "U+AA52", "U+AA53", "U+AA54",
        "U+AA55", "U+AA56", "U+AA57", "U+AA58", "U+AA59">>,
      <<"U+ABF0", "U+ABF1", "U+ABF2", "U+ABF3", "U+ABF4",
        "U+ABF5", "U+ABF6", "U+ABF7", "U+ABF8", "U+ABF9">>,
      <<"U+FF10", "U+FF11", "U+FF12", "U+FF13", "U+FF14",
        "U+FF15", "U+FF16", "U+FF17", "U+FF18", "U+FF19">>,
      <<"U+104A0", "U+104A1", "U+104A2", "U+104A3", "U+104A4",
        "U+104A5", "U+104A6", "U+104A7", "U+104A8", "U+104A9">>,
      <<"U+10D30", "U+10D31", "U+10D32", "U+10D33", "U+10D34",
        "U+10D35", "U+10D36", "U+10D37", "U+10D38", "U+10D39">>,
      <<"U+11066", "U+11067", "U+11068", "U+11069", "U+1106A",
        "U+1106B", "U+1106C", "U+1106D", "U+1106E", "U+1106F">>,
      <<"U+110F0", "U+110F1", "U+110F2", "U+110F3", "U+110F4",
        "U+110F5", "U+110F6", "U+110F7", "U+110F8", "U+110F9">>,
      <<"U+11136", "U+11137", "U+11138", "U+11139", "U+1113A",
        "U+1113B", "U+1113C", "U+1113D", "U+1113E", "U+1113F">>,
      <<"U+111D0", "U+111D1", "U+111D2", "U+111D3", "U+111D4",
        "U+111D5", "U+111D6", "U+111D7", "U+111D8", "U+111D9">>,
      <<"U+112F0", "U+112F1", "U+112F2", "U+112F3", "U+112F4",
        "U+112F5", "U+112F6", "U+112F7", "U+112F8", "U+112F9">>,
      <<"U+11450", "U+11451", "U+11452", "U+11453", "U+11454",
        "U+11455", "U+11456", "U+11457", "U+11458", "U+11459">>,
      <<"U+114D0", "U+114D1", "U+114D2", "U+114D3", "U+114D4",
        "U+114D5", "U+114D6", "U+114D7", "U+114D8", "U+114D9">>,
      <<"U+11650", "U+11651", "U+11652", "U+11653", "U+11654",
        "U+11655", "U+11656", "U+11657", "U+11658", "U+11659">>,
      <<"U+116C0", "U+116C1", "U+116C2", "U+116C3", "U+116C4",
        "U+116C5", "U+116C6", "U+116C7", "U+116C8", "U+116C9">>,
      <<"U+11730", "U+11731", "U+11732", "U+11733", "U+11734",
        "U+11735", "U+11736", "U+11737", "U+11738", "U+11739">>,
      <<"U+118E0", "U+118E1", "U+118E2", "U+118E3", "U+118E4",
        "U+118E5", "U+118E6", "U+118E7", "U+118E8", "U+118E9">>,
      <<"U+11950", "U+11951", "U+11952", "U+11953", "U+11954",
        "U+11955", "U+11956", "U+11957", "U+11958", "U+11959">>,
      <<"U+11C50", "U+11C51", "U+11C52", "U+11C53", "U+11C54",
        "U+11C55", "U+11C56", "U+11C57", "U+11C58", "U+11C59">>,
      <<"U+11D50", "U+11D51", "U+11D52", "U+11D53", "U+11D54",
        "U+11D55", "U+11D56", "U+11D57", "U+11D58", "U+11D59">>,
      <<"U+11DA0", "U+11DA1", "U+11DA2", "U+11DA3", "U+11DA4",
        "U+11DA5", "U+11DA6", "U+11DA7", "U+11DA8", "U+11DA9">>,
      <<"U+16A60", "U+16A61", "U+16A62", "U+16A63", "U+16A64",
        "U+16A65", "U+16A66", "U+16A67", "U+16A68", "U+16A69">>,
      <<"U+16AC0", "U+16AC1", "U+16AC2", "U+16AC3", "U+16AC4",
        "U+16AC5", "U+16AC6", "U+16AC7", "U+16AC8", "U+16AC9">>,
      <<"U+16B50", "U+16B51", "U+16B52", "U+16B53", "U+16B54",
        "U+16B55", "U+16B56", "U+16B57", "U+16B58", "U+16B59">>,
      <<"U+1D7CE", "U+1D7CF", "U+1D7D0", "U+1D7D1", "U+1D7D2",
        "U+1D7D3", "U+1D7D4", "U+1D7D5", "U+1D7D6", "U+1D7D7">>,
      <<"U+1D7D8", "U+1D7D9", "U+1D7DA", "U+1D7DB", "U+1D7DC",
        "U+1D7DD", "U+1D7DE", "U+1D7DF", "U+1D7E0", "U+1D7E1">>,
      <<"U+1D7E2", "U+1D7E3", "U+1D7E4", "U+1D7E5", "U+1D7E6",
        "U+1D7E7", "U+1D7E8", "U+1D7E9", "U+1D7EA", "U+1D7EB">>,
      <<"U+1D7EC", "U+1D7ED", "U+1D7EE", "U+1D7EF", "U+1D7F0",
        "U+1D7F1", "U+1D7F2", "U+1D7F3", "U+1D7F4", "U+1D7F5">>,
      <<"U+1D7F6", "U+1D7F7", "U+1D7F8", "U+1D7F9", "U+1D7FA",
        "U+1D7FB", "U+1D7FC", "U+1D7FD", "U+1D7FE", "U+1D7FF">>,
      <<"U+1E140", "U+1E141", "U+1E142", "U+1E143", "U+1E144",
        "U+1E145", "U+1E146", "U+1E147", "U+1E148", "U+1E149">>,
      <<"U+1E2F0", "U+1E2F1", "U+1E2F2", "U+1E2F3", "U+1E2F4",
        "U+1E2F5", "U+1E2F6", "U+1E2F7", "U+1E2F8", "U+1E2F9">>,
      <<"U+1E950", "U+1E951", "U+1E952", "U+1E953", "U+1E954",
        "U+1E955", "U+1E956", "U+1E957", "U+1E958", "U+1E959">>,
      <<"U+1FBF0", "U+1FBF1", "U+1FBF2", "U+1FBF3", "U+1FBF4",
        "U+1FBF5", "U+1FBF6", "U+1FBF7", "U+1FBF8", "U+1FBF9">>>>

DigitChars == UNION {{DigitRows[r][v] : v \in 1..10} : r \in DOMAIN DigitRows}

DigitVal ==
    [c \in DigitChars |->
        CHOOSE v \in 0..9 : \E r \in DOMAIN DigitRows : DigitRows[r][v + 1] = c]

\* str() writes ASCII digits
DigitChar == DigitRows[1]

\* sys.int_info.default_max_str_digits: int() refuses a literal with more
\* digits (underscores and the sign are not counted)
MaxStrDigits == 4300

\* the digit part of an int() literal: digits, with single underscores
\* allowed between two digits, at most MaxStrDigits digits
AllDigits(t) ==
    /\ Len(t) > 0
    /\ Cardinality({i \in 1..Len(t) : t[i] \in DigitChars}) <= MaxStrDigits
    /\ t[1] \in DigitChars
    /\ t[Len(t)] \in DigitChars
    /\ \A i \in 1..Len(t) : t[i] \in DigitChars \cup {"_"}
    /\ \A i \in 1..(Len(t) - 1) : ~(t[i] = "_" /\ t[i + 1] = "_")

\* int(s) accepts an optional sign followed by the digit part
IsInt(t) ==
    /\ Len(t) > 0
    /\ IF t[1] \in {"+", "-"} THEN AllDigits(Tail(t)) ELSE AllDigits(t)

RECURSIVE DigitsVal(_)
DigitsVal(t) ==
    IF Len(t) = 0 THEN 0
    ELSE IF t[Len(t)] = "_" THEN DigitsVal(SubSeq(t, 1, Len(t) - 1))
    ELSE 10 * DigitsVal(SubSeq(t, 1, Len(t) - 1)) + DigitVal[t[Len(t)]]

\* value of int(s) for a token with IsInt
ParseInt(t) ==
    IF t[1] = "-" THEN 0 - DigitsVal(Tail(t))
    ELSE IF t[1] = "+" THEN DigitsVal(Tail(t))
    ELSE DigitsVal(t)

RECURSIVE NatStr(_)
NatStr(n) ==
    IF n < 10 THEN <<DigitChar[n + 1]>>
    ELSE NatStr(n \div 10) \o <<DigitChar[(n % 10) + 1]>>

\* str(n) as used by the f-string of the output line
IntStr(n) == IF n < 0 THEN <<"-">> \o NatStr(0 - n) ELSE NatStr(n)

-----------------------------------------------------------------------------
(* remap_partition_results *)

\* int(line.strip()) succeeds
PartLineOk(line) == Len(line) = 1 /\ IsInt(line[1])

\* a, b = line.split(); int(a), int(b) succeeds
KeyLineOk(line) == Len(line) = 2 /\ IsInt(line[1]) /\ IsInt(line[2])

\* partitions[i] = int(line.strip()), i counted from 1
LoadPartitions(part) == [i \in 1..Len(part) |-> ParseInt(part[i][1])]

\* mappings[b] = a for each key line "a b"; a later line overwrites
LoadMappings(key) ==
    LET ids == {ParseInt(key[j][2]) : j \in 1..Len(key)}
        last(b) == CHOOSE j \in 1..Len(key) :
                       /\ ParseInt(key[j][2]) = b
                       /\ \A m \in (j + 1)..Len(key) : ParseInt(key[m][2]) # b
    IN [b \in ids |-> ParseInt(key[last(b)][1])]

\* lines printed for positions 1..n
RECURSIVE Emit(_, _, _)
Emit(partitions, mappings, n) ==
    IF n = 0 THEN <<>>
    ELSE Emit(partitions, mappings, n - 1)
         \o << <<IntStr(mappings[n]), IntStr(partitions[n])>> >>

\* remap_partition_results with mappings.get(k) and a skip in the write
\* loop instead of mappings[k]: a position without a key entry is dropped
Remap_SkipsUnknown(key, part) ==
    IF ~part.ex THEN [status |-> part.err, out |-> part]
    ELSE IF \E i \in 1..Len(part.lines) : ~PartLineOk(part.lines[i])
         THEN [status |-> "ValueError", out |-> part]
    ELSE IF ~key.ex THEN [status |-> key.err, out |-> part]
    ELSE IF \E j \in 1..Len(key.lines) : ~KeyLineOk(key.lines[j])
         THEN [status |-> "ValueError", out |-> part]
    ELSE LET partitions == LoadPartitions(part.lines)
             mappings == LoadMappings(key.lines)
             known == SelectSeq([i \in 1..Len(part.lines) |-> i],
                                LAMBDA k : k \in DOMAIN mappings)
         IN [status |-> "ok",
             out |-> File([i \in 1..Len(known) |->
                            <<IntStr(mappings[known[i]]),
                              IntStr(partitions[known[i]])>>])]

\* remap_partition_results with "if len(parts) != 2: continue" and a
\* try/except around int() in the key loop: bad key lines are skipped
Remap_SkipsMalformed(key, part) ==
    IF ~part.ex THEN [status |-> part.err, out |-> part]
    ELSE IF \E i \in 1..Len(part.lines) : ~PartLineOk(part.lines[i])
         THEN [status |-> "ValueError", out |-> part]
    ELSE IF ~key.ex THEN [status |-> key.err, out |-> part]
    ELSE LET partitions == LoadPartitions(part.lines)
             mappings == LoadMappings(SelectSeq(key.lines, KeyLineOk))
             n == Len(part.lines)
             bad == {k \in 1..n : k \notin DOMAIN mappings}
         IN IF bad = {}
            THEN [status |-> "ok", out |-> File(Emit(partitions, mappings, n))]
            ELSE LET k == CHOOSE m \in bad : \A o \in bad : m <= o
                 IN [status |-> "KeyError",
                     out |-> File(Emit(partitions, mappings, k - 1))]

\* Outcome of one call: the exception (or "ok") and the assignment file as
\* it is on disk afterwards. key and part are File(lines) or Unreadable(err).
Remap(key, part) ==
    IF ~part.ex THEN [status |-> part.err, out |-> part]
    ELSE IF \E i \in 1..Len(part.lines) : ~PartLineOk(part.lines[i])
         THEN [status |-> "ValueError", out |-> part]
    ELSE IF ~key.ex THEN [status |-> key.err, out |-> part]
    ELSE IF \E j \in 1..Len(key.lines) : ~KeyLineOk(key.lines[j])
         THEN [status |-> "ValueError", out |-> part]
    ELSE LET partitions == LoadPartitions(part.lines)
             mappings == LoadMappings(key.lines)
             n == Len(part.lines)
             bad == {k \in 1..n : k \notin DOMAIN mappings}
         IN IF bad = {}
            THEN [status |-> "ok", out |-> File(Emit(partitions, mappings, n))]
            ELSE LET k == CHOOSE m \in bad : \A o \in bad : m <= o
                 IN [status |-> "KeyError",
                     out |-> File(Emit(partitions, mappings, k - 1))]

-----------------------------------------------------------------------------
(* Paths and the filesystem calls used by the script *)

Root == <<>>

\* A path is the sequence of its components below the root. A component
\* (a file or directory name) is the sequence of its parts between dots:
\* "g.txt" is <<"g", "txt">>, "work" is <<"work">>, ".bashrc" is
\* <<"", "bashrc">>.
Dot == <<"", "">>

DotDot == <<"", "", "">>

\* the directory the process is in before the first call
StartDir == << <<"home">>, <<"work">> >>

\* an absolute directory a caller may pass as output_dir
OutAbs == << <<"home">>, <<"out">> >>

\* a directory below StartDir a caller may name relatively
OutRel == <<"out">>

\* a name no directory entry has
NoSuchDir == <<"nope">>

\* the input_file argument, named relative to the caller's directory
InputName == <<"g", "txt">>

\* values of generate_random_string()
Suffixes == {"aaaa", "bbbb", "cccc"}

\* f"gcm_cache_{generate_random_string()}"
ScratchName(sfx) == <<"gcm_cache_" \o sfx>>

\* scratch directory of a run belonging to another process
ForeignDir == Append(StartDir, ScratchName("aaaa"))

ForeignFile == Append(ForeignDir, <<"other", "txt">>)

\* a regular file that happens to carry a scratch name
ForeignPlainFile == Append(StartDir, ScratchName("cccc"))

EdgeLines == << << <<"5">>, <<"6">> >> >>

FormattedLines == << << <<"1">>, <<"2">> >> >>

Parent(p) == SubSeq(p, 1, Len(p) - 1)

Basename(p) == p[Len(p)]

IsPrefix(p, q) == Len(p) <= Len(q) /\ SubSeq(q, 1, Len(p)) = p

Abs(comps) == [abs |-> TRUE, comps |-> comps]

Rel(comps) == [abs |-> FALSE, comps |-> comps]

\* os.path.join(a, b)
Join(a, b) == IF b.abs THEN b ELSE [abs |-> a.abs, comps |-> a.comps \o b.comps]

\* The kernel's walk along the components: every component is looked up in
\* a directory that exists, "." stays, ".." goes to the parent entry. The
\* filesystem modelled has no symbolic links.
RECURSIVE Walk(_, _, _, _)
Walk(ds, fs, cur, comps) ==
    IF Len(comps) = 0 THEN [status |-> "ok", path |-> cur]
    ELSE IF cur \in DOMAIN fs
         THEN [status |-> "NotADirectoryError", path |-> cur]
    ELSE IF cur \notin ds
         THEN [status |-> "FileNotFoundError", path |-> cur]
    ELSE LET c == Head(comps)
             next == IF c = Dot THEN cur
                     ELSE IF c = DotDot
                          THEN (IF cur = Root THEN Root ELSE Parent(cur))
                     ELSE Append(cur, c)
         IN Walk(ds, fs, next, Tail(comps))

\* the entry a path names when the working directory is wd, or the error
\* the lookup ends with
Resolve(ds, fs, wd, p) == Walk(ds, fs, IF p.abs THEN Root ELSE wd, p.comps)

\* os.path.exists(p)
Exists(ds, fs, r) == r.status = "ok" /\ r.path \in ds \cup DOMAIN fs

\* PurePath.suffix is not empty: the last dot of the name is neither its
\* first nor its last character
HasSuffix(name) ==
    /\ Len(name) >= 2
    /\ name[Len(name)] # ""
    /\ (Len(name) >= 3 \/ name[1] # "")

\* Path(name) has an empty name, which with_stem refuses with ValueError
EmptyName(name) == name \in {<<"">>, Dot}

\* Path(name).with_stem(Path(name).stem + suffix) for a name with_stem
\* accepts
WithStemSuffix(name, suffix) ==
    LET k == IF HasSuffix(name) THEN Len(name) - 1 ELSE Len(name)
    IN [i \in 1..Len(name) |-> IF i = k THEN name[i] \o suffix ELSE name[i]]

\* f'partition_{os.path.basename(formatted_file)}'
ResultName(formatted) == [formatted EXCEPT ![1] = "partition_" \o @]

\* open(p, 'r') on a resolved path
ReadFile(ds, fs, r) ==
    IF r.status # "ok" THEN Unreadable(r.status)
    ELSE IF r.path \in DOMAIN fs THEN File(fs[r.path])
    ELSE IF r.path \in ds THEN IsDirectory
    ELSE Missing

WriteFile(fs, p, lines) ==
    [q \in DOMAIN fs \cup {p} |-> IF q = p THEN lines ELSE fs[q]]

\* shutil.copy: a destination that is a directory receives the file under
\* the source's base name
CopyTarget(ds, fs, name, dst) ==
    IF dst.status = "ok" /\ dst.path \in ds
    THEN Walk(ds, fs, dst.path, <<name>>)
    ELSE dst

\* shutil.copy(src, dst) once the target is known: the error it raises, or
\* "ok". Creating an entry needs a writable directory, rewriting an
\* existing file does not; every file is readable and writable.
CopyStatus(ds, fs, rod, src, target) ==
    IF src.status # "ok" THEN src.status
    ELSE IF src.path \in ds THEN "IsADirectoryError"
    ELSE IF src.path \notin DOMAIN fs THEN "FileNotFoundError"
    ELSE IF target.status # "ok" THEN target.status
    ELSE IF target.path = src.path THEN "SameFileError"
    ELSE IF target.path \in ds THEN "IsADirectoryError"
    ELSE IF target.path \in DOMAIN fs THEN "ok"
    ELSE IF Parent(target.path) \in rod THEN "PermissionError"
    ELSE "ok"

\* os.makedirs(d, exist_ok=True): an existing directory is accepted
MakedirsStatus_ExistOk(ds, fs, rod, d) ==
    IF d \in ds THEN "ok"
    ELSE IF d \in DOMAIN fs THEN "FileExistsError"
    ELSE IF Parent(d) \in rod THEN "PermissionError"
    ELSE "ok"

\* os.makedirs(d) below an existing directory: the error it raises, or "ok"
MakedirsStatus(ds, fs, rod, d) ==
    IF d \in ds \/ d \in DOMAIN fs THEN "FileExistsError"
    ELSE IF Parent(d) \in rod THEN "PermissionError"
    ELSE "ok"

\* shutil.rmtree(d)
RmtreeDirs(ds, d) == {q \in ds : ~IsPrefix(d, q)}

RmtreeFiles(fs, d) == [q \in {r \in DOMAIN fs : ~IsPrefix(d, r)} |-> fs[q]]

-----------------------------------------------------------------------------
(* What the external programs may leave behind *)

KeyGood == << << <<"5">>, <<"1">> >>, << <<"6">>, <<"2">> >> >>

KeyLabels == << << <<"A">>, <<"1">> >>, << <<"B">>, <<"2">> >> >>

\* key files format_edgelist.py may write
PipeKeys == {KeyGood, KeyLabels}

PartTwo == << << <<"0">> >>, << <<"1">> >> >>

PartThree == << << <<"0">> >>, << <<"1">> >>, << <<"0">> >> >>

\* assignment files a.out may write
PipeParts == {PartTwo, PartThree}

\* how subprocess.run can end: the child exits with status 0, exits with
\* another status, the executable is not found, or starting it raises
\* another OSError (here: the file may not be executed), which
\* subprocess_context does not catch. No timeout is passed.
Outcomes == {"ok", "nonzero", "notfound", "denied"}

\* the output_dir argument: None, absolute, or relative
OutDirArgs ==
    {[given |-> FALSE, path |-> Abs(<<>>)],
     [given |-> TRUE, path |-> Abs(OutAbs)],
     [given |-> TRUE, path |-> Rel(<<Dot>>)],
     [given |-> TRUE, path |-> Rel(<<OutRel>>)],
     [given |-> TRUE, path |-> Rel(<<DotDot>>)],
     [given |-> TRUE, path |-> Rel(<<DotDot, NoSuchDir, DotDot, OutRel>>)]}

DefaultOutputFile == <<"clustering_output", "txt">>

NoExits == [format |-> "none", work |-> "none", cluster |-> "none"]

NoLocals ==
    [iwd |-> UnboundPath, output_dir |-> Abs(UnboundPath),
     output_file |-> Unbound, scratch_directory |-> UnboundPath,
     scratch_file |-> UnboundPath, formatted_file |-> Unbound,
     key_file |-> Unbound]

NoResult == [status |-> "none", out |-> Missing]

-----------------------------------------------------------------------------
(* gcm(): one action per stage *)

InitPipe ==
    /\ \E inputThere \in BOOLEAN, outThere \in BOOLEAN :
         /\ dirs = {Root, Parent(StartDir), StartDir, Append(StartDir, OutRel),
                    ForeignDir}
                     \cup (IF outThere THEN {OutAbs} ELSE {})
         /\ files = [q \in (IF inputThere THEN {Append(StartDir, InputName)}
                                             ELSE {})
                            \cup {ForeignFile, ForeignPlainFile}
                       |-> EdgeLines]
    /\ ro \in {{}, {StartDir}}
    /\ cwd = StartDir
    /\ pc = "idle"
    /\ runs = 0
    /\ argOutDir = [given |-> FALSE, path |-> Abs(<<>>)]
    /\ L = NoLocals
    /\ made = NoPath
    /\ trace = <<>>
    /\ exits = NoExits
    /\ cleanups = 0
    /\ published = NoPath
    /\ exc = "none"
    /\ alive = {}

\* gcm entry: os.getcwd() and the defaults of output_dir and output_file
Call(od) ==
    /\ pc \in {"idle", "done", "raised"}
    /\ runs < MaxRuns
    /\ runs' = runs + 1
    /\ argOutDir' = od
    /\ L' = [NoLocals EXCEPT
               !.iwd = cwd,
               !.output_dir = IF od.given THEN od.path ELSE Abs(cwd),
               !.output_file = DefaultOutputFile]
    /\ made' = NoPath
    /\ trace' = <<>>
    /\ exits' = NoExits
    /\ cleanups' = 0
    /\ published' = NoPath
    /\ exc' = "none"
    /\ pc' = "setup"
    /\ UNCHANGED <<dirs, files, ro, cwd, alive, rmVars>>

\* _setup_and_enter_scratch with os.chdir placed before shutil.copy
SetupAndEnterScratch_ChdirFirst(sfx) ==
    /\ pc = "setup"
    /\ trace' = Append(trace, "stage")
    /\ LET d == Append(L.iwd, ScratchName(sfx))
           mk == MakedirsStatus(dirs, files, ro, d)
           ds == dirs \cup {d}
           input_file == Rel(<<InputName>>)
           scratch_file == Append(d, Basename(input_file.comps))
           src == Resolve(ds, files, cwd, input_file)
           dst == CopyTarget(ds, files, Basename(input_file.comps),
                             Resolve(ds, files, cwd, Abs(scratch_file)))
           cp == CopyStatus(ds, files, ro, src, dst)
       IN IF mk # "ok"
          THEN /\ exc' = mk
               /\ pc' = "finally"
               /\ UNCHANGED <<dirs, files, cwd, L, made>>
          ELSE /\ dirs' = ds
               /\ made' = d
               /\ cwd' = d
               /\ IF cp # "ok"
                  THEN /\ exc' = cp
                       /\ pc' = "finally"
                       /\ UNCHANGED <<files, L>>
                  ELSE /\ files' = WriteFile(files, dst.path, files[src.path])
                       /\ L' = [L EXCEPT !.scratch_directory = d,
                                         !.scratch_file = scratch_file]
                       /\ pc' = "format"
                       /\ UNCHANGED exc
    /\ UNCHANGED <<ro, runs, argOutDir, exits, cleanups, published, alive,
                   rmVars>>

\* _setup_and_enter_scratch; its results are bound only if it returns
SetupAndEnterScratch(sfx) ==
    /\ pc = "setup"
    /\ trace' = Append(trace, "stage")
    /\ LET d == Append(L.iwd, ScratchName(sfx))
           mk == MakedirsStatus(dirs, files, ro, d)
           ds == dirs \cup {d}
           input_file == Rel(<<InputName>>)
           scratch_file == Append(d, Basename(input_file.comps))
           src == Resolve(ds, files, cwd, input_file)
           dst == CopyTarget(ds, files, Basename(input_file.comps),
                             Resolve(ds, files, cwd, Abs(scratch_file)))
           cp == CopyStatus(ds, files, ro, src, dst)
       IN IF mk # "ok"
          THEN /\ exc' = mk
               /\ pc' = "finally"
               /\ UNCHANGED <<dirs, files, cwd, L, made>>
          ELSE /\ dirs' = ds
               /\ made' = d
               /\ IF cp # "ok"
                  THEN /\ exc' = cp
                       /\ pc' = "finally"
                       /\ UNCHANGED <<files, cwd, L>>
                  ELSE /\ files' = WriteFile(files, dst.path, files[src.path])
                       /\ cwd' = d
                       /\ L' = [L EXCEPT !.scratch_directory = d,
                                         !.scratch_file = scratch_file]
                       /\ pc' = "format"
                       /\ UNCHANGED exc
    /\ UNCHANGED <<ro, runs, argOutDir, exits, cleanups, published, alive,
                   rmVars>>

\* the stage each external step of gcm belongs to
StageOf == [format |-> "format", work |-> "prepare", cluster |-> "cluster"]

\* subprocess.run returned or raised after its child had exited
Exited(outcome) == outcome \in {"ok", "nonzero"}

\* subprocess.run has created the child process of the current external
\* step and waits for it
StartChild ==
    /\ pc \in DOMAIN StageOf
    /\ StageOf[pc] \notin alive
    /\ alive' = alive \cup {StageOf[pc]}
    /\ trace' = Append(trace, StageOf[pc])
    /\ UNCHANGED <<dirs, files, ro, cwd, pc, runs, argOutDir, L, made, exits,
                   cleanups, published, exc, rmVars>>

\* run_format_script with check=True outside subprocess_context: a
\* non-zero exit raises CalledProcessError out of the function
RunFormatScript_Checked(outcome, wrote, key) ==
    /\ pc = "format"
    /\ Exited(outcome) <=> "format" \in alive
    /\ trace' = IF "format" \in alive THEN trace ELSE Append(trace, "format")
    /\ alive' = alive \ {"format"}
    /\ LET filename == Basename(L.scratch_file)
           formatted == WithStemSuffix(filename, "_formatted")
           keyname == WithStemSuffix(filename, "_key")
           writes == wrote /\ outcome \in {"ok", "nonzero"}
       IN /\ files' = IF writes
                      THEN WriteFile(WriteFile(files, Append(cwd, formatted),
                                               FormattedLines),
                                     Append(cwd, keyname), key)
                      ELSE files
          /\ IF outcome \in {"denied", "nonzero"} \/ EmptyName(filename)
             THEN /\ exc' = IF outcome = "denied" THEN "PermissionError"
                            ELSE IF outcome = "nonzero"
                                 THEN "CalledProcessError"
                            ELSE "ValueError"
                  /\ pc' = "finally"
                  /\ UNCHANGED L
             ELSE /\ L' = [L EXCEPT !.formatted_file = formatted,
                                    !.key_file = keyname]
                  /\ pc' = "work"
                  /\ UNCHANGED exc
    /\ exits' = IF outcome = "denied" THEN exits
                ELSE [exits EXCEPT !.format = outcome]
    /\ UNCHANGED <<dirs, ro, cwd, runs, argOutDir, made, cleanups, published,
                   rmVars>>

\* run_format_script from the end of subprocess.run on (the child has
\* exited, or none could be started): exit status not checked, a missing
\* interpreter is printed; the two file names are returned unless subprocess.run raised
\* past subprocess_context. What the child wrote does not follow from its
\* exit status.
RunFormatScript(outcome, wrote, key) ==
    /\ pc = "format"
    /\ Exited(outcome) <=> "format" \in alive
    /\ trace' = IF "format" \in alive THEN trace ELSE Append(trace, "format")
    /\ alive' = alive \ {"format"}
    /\ LET filename == Basename(L.scratch_file)
           formatted == WithStemSuffix(filename, "_formatted")
           keyname == WithStemSuffix(filename, "_key")
           writes == wrote /\ outcome \in {"ok", "nonzero"}
       IN /\ files' = IF writes
                      THEN WriteFile(WriteFile(files, Append(cwd, formatted),
                                               FormattedLines),
                                     Append(cwd, keyname), key)
                      ELSE files
          /\ exits' = IF outcome = "denied" THEN exits
                      ELSE [exits EXCEPT !.format = outcome]
          /\ IF outcome = "denied" \/ EmptyName(filename)
             THEN /\ exc' = IF outcome = "denied" THEN "PermissionError"
                            ELSE "ValueError"
                  /\ pc' = "finally"
                  /\ UNCHANGED L
             ELSE /\ L' = [L EXCEPT !.formatted_file = formatted,
                                    !.key_file = keyname]
                  /\ pc' = "work"
                  /\ UNCHANGED exc
    /\ UNCHANGED <<dirs, ro, cwd, runs, argOutDir, made, cleanups, published,
                   rmVars>>

\* run_work_script with subprocess.Popen in place of subprocess.run: the
\* function returns as soon as the child has been started
RunWorkScript_NoWait(outcome) ==
    /\ pc = "work"
    /\ Exited(outcome) <=> "prepare" \in alive
    /\ trace' = IF "prepare" \in alive THEN trace ELSE Append(trace, "prepare")
    /\ IF outcome = "denied"
       THEN /\ exc' = "PermissionError"
            /\ pc' = "finally"
            /\ UNCHANGED exits
       ELSE /\ exits' = IF Exited(outcome) THEN exits
                        ELSE [exits EXCEPT !.work = outcome]
            /\ pc' = "cluster"
            /\ UNCHANGED exc
    /\ UNCHANGED <<dirs, files, ro, cwd, runs, argOutDir, L, made, cleanups,
                   published, alive, rmVars>>

\* run_work_script from the end of subprocess.run on (the child has
\* exited, or none could be started): check=True, but the errors
\* subprocess_context catches are printed and the function returns; any other error leaves gcm's try
\* block
RunWorkScript(outcome) ==
    /\ pc = "work"
    /\ Exited(outcome) <=> "prepare" \in alive
    /\ trace' = IF "prepare" \in alive THEN trace ELSE Append(trace, "prepare")
    /\ alive' = alive \ {"prepare"}
    /\ IF outcome = "denied"
       THEN /\ exc' = "PermissionError"
            /\ pc' = "finally"
            /\ UNCHANGED exits
       ELSE /\ exits' = [exits EXCEPT !.work = outcome]
            /\ pc' = "cluster"
            /\ UNCHANGED exc
    /\ UNCHANGED <<dirs, files, ro, cwd, runs, argOutDir, L, made, cleanups,
                   published, rmVars>>

\* run_clustering from the end of subprocess.run on (the child has
\* exited, or none could be started): check=True, but the errors
\* subprocess_context catches are printed and the function returns; any other error leaves gcm's try
\* block. What the child wrote does not follow from its exit status.
RunClustering(outcome, wrote, part) ==
    /\ pc = "cluster"
    /\ Exited(outcome) <=> "cluster" \in alive
    /\ trace' = IF "cluster" \in alive THEN trace ELSE Append(trace, "cluster")
    /\ alive' = alive \ {"cluster"}
    /\ LET writes == wrote /\ outcome \in {"ok", "nonzero"}
           result == Append(cwd, ResultName(Basename(<<L.formatted_file>>)))
       IN files' = IF writes THEN WriteFile(files, result, part) ELSE files
    /\ IF outcome = "denied"
       THEN /\ exc' = "PermissionError"
            /\ pc' = "finally"
            /\ UNCHANGED exits
       ELSE /\ exits' = [exits EXCEPT !.cluster = outcome]
            /\ pc' = "remap"
            /\ UNCHANGED exc
    /\ UNCHANGED <<dirs, ro, cwd, runs, argOutDir, L, made, cleanups,
                   published, rmVars>>

\* remap_partition_results(key_file, formatted_file), relative to cwd
RemapStage ==
    /\ pc = "remap"
    /\ trace' = Append(trace, "remap")
    /\ LET keypath == Resolve(dirs, files, cwd, Rel(<<L.key_file>>))
           result ==
               Resolve(dirs, files, cwd,
                       Rel(<<ResultName(Basename(<<L.formatted_file>>))>>))
           r == Remap(ReadFile(dirs, files, keypath),
                      ReadFile(dirs, files, result))
       IN /\ files' = IF r.out.ex THEN WriteFile(files, result.path, r.out.lines)
                      ELSE files
          /\ exc' = IF r.status = "ok" THEN "none" ELSE r.status
    /\ pc' = "finally"
    /\ UNCHANGED <<dirs, ro, cwd, runs, argOutDir, L, made, exits, cleanups,
                   published, alive, rmVars>>

\* the finally block: the arguments are evaluated, then
\* _exit_and_cleanup_scratch runs; a pending exception is re-raised after it
Finally ==
    /\ pc = "finally"
    /\ IF L.scratch_directory = UnboundPath \/ L.formatted_file = Unbound
       THEN /\ exc' = "UnboundLocalError"
            /\ pc' = "raised"
            /\ UNCHANGED <<dirs, files, cwd, trace, cleanups, published>>
       ELSE LET result_filename == ResultName(Basename(<<L.formatted_file>>))
                output_filepath == Join(L.output_dir, Rel(<<L.output_file>>))
                result_filepath ==
                    Resolve(dirs, files, cwd,
                            Abs(Append(L.scratch_directory, result_filename)))
                exists == Exists(dirs, files, result_filepath)
                target == CopyTarget(dirs, files, result_filename,
                                     Resolve(dirs, files, cwd, output_filepath))
                cp == CopyStatus(dirs, files, ro, result_filepath, target)
                copied == IF exists
                          THEN WriteFile(files, target.path,
                                         files[result_filepath.path])
                          ELSE files
                there == Exists(dirs, files,
                               Resolve(dirs, files, L.iwd,
                                       Abs(L.scratch_directory)))
            IN /\ trace' = Append(trace, "cleanup")
               /\ cleanups' = cleanups + 1
               /\ IF exists /\ cp # "ok"
                  THEN /\ exc' = cp
                       /\ pc' = "raised"
                       /\ UNCHANGED <<dirs, files, cwd, published>>
                  ELSE /\ published' = IF exists THEN target.path ELSE NoPath
                       /\ cwd' = L.iwd
                       /\ dirs' = IF there
                                  THEN RmtreeDirs(dirs, L.scratch_directory)
                                  ELSE dirs
                       /\ files' = IF there
                                   THEN RmtreeFiles(copied, L.scratch_directory)
                                   ELSE copied
                       /\ pc' = IF exc = "none" THEN "done" ELSE "raised"
                       /\ UNCHANGED exc
    /\ UNCHANGED <<ro, runs, argOutDir, L, made, exits, alive, rmVars>>

Init ==
    /\ InitPipe
    /\ rmKey = Missing
    /\ rmPart = Missing
    /\ rmPhase = "input"
    /\ rmRes = NoResult

Next ==
    \/ \E od \in OutDirArgs : Call(od)
    \/ \E sfx \in Suffixes : SetupAndEnterScratch(sfx)
    \/ StartChild
    \/ \E o \in Outcomes, w \in BOOLEAN, k \in PipeKeys : RunFormatScript(o, w, k)
    \/ \E o \in Outcomes : RunWorkScript(o)
    \/ \E o \in Outcomes, w \in BOOLEAN, p \in PipeParts : RunClustering(o, w, p)
    \/ RemapStage
    \/ Finally

Spec == Init /\ [][Next]_vars

-----------------------------------------------------------------------------
(* remap_partition_results on its own: inputs drawn, then one call *)

SeqsUpTo(S, n) == UNION {[1..k -> S] : k \in 0..n}

\* labels int() accepts: one in canonical form, one that is not
LabelTokens == {<<"5">>, <<"0", "_", "7">>}

\* a label int() refuses
BadLabelToken == <<"A">>

DenseTokens == {<<"1">>, <<"2">>, <<"3">>}

\* a dense-ID token int() refuses
BadDenseToken == <<"y">>

\* "<original> <dense>" lines of integers, a line whose label is not an
\* integer, a line whose dense ID is not an integer, a one-field line, a
\* three-field line and a blank line
KeyLineSet ==
    {<<l, d>> : l \in LabelTokens, d \in DenseTokens}
      \cup {<< BadLabelToken, <<"1">> >>, << <<"5">>, BadDenseToken >>,
             << <<"x">> >>, << <<"5">>, <<"1">>, <<"9">> >>, <<>>}

\* one cluster label per line, and a line that is not an integer
PartLineSet == {<< <<"0">> >>, << <<"1">> >>, << <<"x">> >>}

InitRemap ==
    /\ rmKey \in {Missing, IsDirectory} \cup {File(k) : k \in SeqsUpTo(KeyLineSet, MaxKeyLines)}
    /\ rmPart \in {Missing, IsDirectory} \cup {File(p) : p \in SeqsUpTo(PartLineSet, MaxPartLines)}
    /\ rmPhase = "input"
    /\ rmRes = NoResult
    /\ dirs = {Root, Parent(StartDir), StartDir}
    /\ files = [q \in {} |-> EdgeLines]
    /\ ro = {}
    /\ cwd = StartDir
    /\ pc = "idle"
    /\ runs = 0
    /\ argOutDir = [given |-> FALSE, path |-> Abs(<<>>)]
    /\ L = NoLocals
    /\ made = NoPath
    /\ trace = <<>>
    /\ exits = NoExits
    /\ cleanups = 0
    /\ published = NoPath
    /\ exc = "none"
    /\ alive = {}

CallRemap ==
    /\ rmPhase = "input"
    /\ rmRes' = Remap(rmKey, rmPart)
    /\ rmPhase' = "called"
    /\ UNCHANGED <<rmKey, rmPart, pipeVars>>

NextRemap == CallRemap

SpecRemap == InitRemap /\ [][NextRemap]_vars

-----------------------------------------------------------------------------
(* Properties of a gcm() call *)

\* gcm has returned or raised
Finished == pc \in {"done", "raised"}

InTrace(stage) == \E i \in 1..Len(trace) : trace[i] = stage

StepFailed(o) == o \in {"nonzero", "notfound"}

\* some stage of this call failed
SomeStageFailed ==
    \/ exc # "none"
    \/ StepFailed(exits.format)
    \/ StepFailed(exits.work)
    \/ StepFailed(exits.cluster)

\* every stage of this call succeeded
AllStagesOk ==
    /\ exc = "none"
    /\ exits.format = "ok"
    /\ exits.work = "ok"
    /\ exits.cluster = "ok"

\* <output_dir>/<output_file> as the caller named it, i.e. seen from the
\* directory that was current when gcm was called
IntendedOutput ==
    Resolve(dirs, files, L.iwd, Join(L.output_dir, Rel(<<L.output_file>>))).path

\* C1: once gcm has returned or raised, the scratch directory that this
\* call created is no longer on disk.
C1_NoScratchLeftBehind == Finished => made \notin dirs

\* C2: if the clustering binary exited non-zero, then when gcm has finished
\* the scratch directory is gone and the working directory is the one that
\* was current when gcm was called.
C2_ClusterFailureCleansUp ==
    (Finished /\ exits.cluster = "nonzero")
        => (made \notin dirs /\ cwd = L.iwd)

\* C3: a non-zero exit of the clustering binary aborts the pipeline: the
\* remap stage is not executed in that call.
C3_ClusterFailureSkipsRemap ==
    exits.cluster = "nonzero" => ~InTrace("remap")

\* C4: if any stage failed, the call has written no file at the output
\* location when it finishes.
C4_NoOutputAfterFailure ==
    (Finished /\ SomeStageFailed) => published = NoPath

\* C5: _exit_and_cleanup_scratch has been executed exactly once whenever
\* gcm has returned or raised.
C5_CleanupExactlyOnce == Finished => cleanups = 1

\* C6: every execution of _exit_and_cleanup_scratch restores the working
\* directory and removes the scratch directory, also when the copy of the
\* result fails.
C6_CleanupUnconditional ==
    cleanups > 0 => (cwd = L.iwd /\ L.scratch_directory \notin dirs)

\* C7: after a call in which every stage succeeded, the result is at
\* <output_dir>/<output_file> as the caller named it, for every output_dir.
C7_OutputAtCallerLocation ==
    (pc = "done" /\ AllStagesOk)
        => (published = IntendedOutput /\ IntendedOutput \in DOMAIN files)

-----------------------------------------------------------------------------
(* Properties of the stage sequence of gcm() *)

ExternalStepFailed ==
    \/ StepFailed(exits.format)
    \/ StepFailed(exits.work)
    \/ StepFailed(exits.cluster)

\* C13: a failed external step (not found, non-zero exit) is only printed:
\* gcm still returns normally, unless the remap data or the publish copy
\* failed on their own account.
C13_StepFailureDoesNotEscape ==
    (Finished /\ ExternalStepFailed)
        => \/ pc = "done"
           \/ exc \in {"ValueError", "KeyError"}
           \/ made \in dirs

\* C14: if work.sh is not found or exits non-zero, neither the clustering
\* binary nor remap is executed in that call.
C14_PrepareFailureSkipsRest ==
    StepFailed(exits.work) => (~InTrace("cluster") /\ ~InTrace("remap"))

\* _setup_and_enter_scratch has been entered and did not return
SetupFailed == InTrace("stage") /\ L.scratch_directory = UnboundPath

\* C15: if creating the scratch directory or copying the input into it
\* fails, no external step is run and the working directory stays the one
\* that was current when gcm was called.
C15_SetupFailureAbortsEarly ==
    SetupFailed
        => /\ exits = NoExits
           /\ trace = <<"stage">>
           /\ cwd = L.iwd
           /\ pc \in {"finally", "raised"}

\* the directory was created, the copy of the input failed, gcm has raised
C15_Witness ==
    /\ pc = "raised"
    /\ SetupFailed
    /\ made \in dirs
    /\ exc = "UnboundLocalError"

StageOrder == <<"stage", "format", "prepare", "cluster", "remap", "cleanup">>

\* stages entered before the stage pc names
StagesBefore ==
    [p \in {"format", "work", "cluster", "remap"} |->
        CASE p = "format" -> 1 [] p = "work" -> 2
          [] p = "cluster" -> 3 [] p = "remap" -> 4]

\* the stages of the try block this call has entered
Started ==
    IF Len(trace) > 0 /\ trace[Len(trace)] = "cleanup"
    THEN SubSeq(trace, 1, Len(trace) - 1)
    ELSE trace

\* the child of the external step pc names is running
ChildRunning == pc \in DOMAIN StageOf /\ StageOf[pc] \in alive

\* C16: the stages of a call are entered in the order stage, format,
\* prepare, cluster, remap, cleanup, each at most once and each only after
\* the one before it, its child process included, has finished: at most one
\* child of the call is alive, and only while its own stage is the current
\* one. Cleanup is entered before remap only with an exception in flight.
C16_StagesInOrder ==
    /\ Len(Started) <= 5
    /\ Started = SubSeq(StageOrder, 1, Len(Started))
    /\ (InTrace("cleanup") /\ Len(Started) < 5) => exc # "none"
    /\ pc \in DOMAIN StagesBefore
           => trace = SubSeq(StageOrder, 1,
                             StagesBefore[pc] + IF ChildRunning THEN 1 ELSE 0)
    /\ Cardinality(alive) <= 1
    /\ \A c \in alive : pc \in DOMAIN StageOf /\ StageOf[pc] = c

\* the clustering binary is running after the formatter and work.sh have
\* run and exited
C16_Witness ==
    /\ pc = "cluster"
    /\ alive = {"cluster"}
    /\ trace = SubSeq(StageOrder, 1, 4)
    /\ exits.format = "ok"
    /\ exits.work = "ok"

\* C17: a non-zero exit of the formatter raises nothing and does not stop
\* the pipeline: the preparation script is the next stage and is given
\* <stem>_formatted<ext>.
C17_FormatterExitNotEnforced ==
    exits.format = "nonzero"
        => /\ L.formatted_file = <<"g_formatted", "txt">>
           /\ L.key_file = <<"g_key", "txt">>
           /\ \/ pc = "work" /\ exc = "none"
              \/ InTrace("prepare")

\* the formatter exited non-zero and the preparation script has been run
C17_Witness ==
    /\ exits.format = "nonzero"
    /\ exits.work # "none"
    /\ InTrace("prepare")

\* C18: the scratch directory of another process' run and the file in it
\* are never removed or written, and are never taken as this call's own
\* scratch directory, also when this call draws the same suffix.
C18_ForeignScratchUntouched ==
    /\ ForeignDir \in dirs
    /\ ForeignFile \in DOMAIN files
    /\ files[ForeignFile] = EdgeLines
    /\ {q \in DOMAIN files : IsPrefix(ForeignDir, q)} = {ForeignFile}
    /\ made # ForeignDir
    /\ L.scratch_directory # ForeignDir

\* the first call drew the suffix of the other run: makedirs failed with
\* FileExistsError and gcm has raised
C18_Witness ==
    /\ pc = "raised"
    /\ runs = 1
    /\ ro = {}
    /\ SetupFailed
    /\ made = NoPath
    /\ ForeignDir \in dirs

-----------------------------------------------------------------------------
(* Properties of remap_partition_results *)

\* errors of opening a file for reading
OpenErrors == {"FileNotFoundError", "IsADirectoryError", "NotADirectoryError"}

Called == rmPhase = "called"

\* a key file as the data model describes it: two tokens per line, the
\* second an integer dense ID
KeyWellFormed(key) ==
    /\ key.ex
    /\ \A j \in 1..Len(key.lines) :
         Len(key.lines[j]) = 2 /\ IsInt(key.lines[j][2])

DenseIds(key) == {ParseInt(key.lines[j][2]) : j \in 1..Len(key.lines)}

\* the key store is a bijection between N labels and 1..N
KeyBijection(key) ==
    /\ KeyWellFormed(key)
    /\ DenseIds(key) = 1..Len(key.lines)
    /\ Cardinality({key.lines[j][1] : j \in 1..Len(key.lines)}) = Len(key.lines)

\* an assignment file of integer cluster labels, one per line
ClusterLabels(part) ==
    /\ part.ex
    /\ \A i \in 1..Len(part.lines) : PartLineOk(part.lines[i])

\* the label the key file gives for dense ID i, as written in the file
LabelOf(key, i) ==
    LET j == CHOOSE m \in 1..Len(key.lines) :
                 /\ ParseInt(key.lines[m][2]) = i
                 /\ \A o \in (m + 1)..Len(key.lines) :
                        ParseInt(key.lines[o][2]) # i
    IN key.lines[j][1]

\* C8: for a bijective key store of N labels and an assignment file of N
\* cluster labels, remap leaves exactly N lines, line i being the label of
\* dense ID i followed by the cluster label that was on line i.
C8_RemapByDenseId ==
    (/\ Called
     /\ KeyBijection(rmKey)
     /\ ClusterLabels(rmPart)
     /\ Len(rmPart.lines) = Len(rmKey.lines))
        => /\ rmRes.status = "ok"
           /\ rmRes.out.ex
           /\ rmRes.out.lines =
                [i \in 1..Len(rmPart.lines) |->
                    <<LabelOf(rmKey, i), rmPart.lines[i][1]>>]

\* C9: remap accepts labels that are arbitrary tokens and emits each label
\* unchanged.
C9_LabelsEmittedUnchanged ==
    (/\ Called
     /\ KeyWellFormed(rmKey)
     /\ ClusterLabels(rmPart)
     /\ (1..Len(rmPart.lines)) \subseteq DenseIds(rmKey))
        => /\ rmRes.status = "ok"
           /\ Len(rmRes.out.lines) = Len(rmPart.lines)
           /\ \A i \in 1..Len(rmPart.lines) :
                rmRes.out.lines[i][1] = LabelOf(rmKey, i)

\* C10: remap never completes successfully when the number of assignment
\* lines differs from the number of dense IDs in the key store.
C10_LineCountMismatchFails ==
    (/\ Called
     /\ KeyWellFormed(rmKey)
     /\ rmPart.ex
     /\ Len(rmPart.lines) # Cardinality(DenseIds(rmKey)))
        => rmRes.status # "ok"

\* dense IDs for which the key file has a well-formed line
KnownIds(key) ==
    {ParseInt(key.lines[j][2]) :
        j \in {m \in 1..Len(key.lines) :
                  Len(key.lines[m]) = 2 /\ IsInt(key.lines[m][2])}}

\* positions of the assignment file without a key entry
UnknownPositions(key, part) ==
    {i \in 1..Len(part.lines) : i \notin KnownIds(key)}

FirstUnknown(key, part) ==
    CHOOSE k \in UnknownPositions(key, part) :
        \A o \in UnknownPositions(key, part) : k <= o

\* both files are read without error by the two loading loops
Loadable(key, part) ==
    /\ ClusterLabels(part)
    /\ key.ex
    /\ \A j \in 1..Len(key.lines) : KeyLineOk(key.lines[j])

\* C11: if some position i of the assignment file has no key entry with
\* dense ID i, remap raises and emits no line for that position: the file
\* is untouched or ends before the first such position; when both files
\* load, the error is the lookup failure at that position.
C11_UnknownDenseIdRaises ==
    (/\ Called
     /\ rmPart.ex
     /\ UnknownPositions(rmKey, rmPart) # {})
        => /\ rmRes.status \in {"KeyError", "ValueError"} \cup OpenErrors
           /\ \/ rmRes.out = rmPart
              \/ Len(rmRes.out.lines) = FirstUnknown(rmKey, rmPart) - 1
           /\ Loadable(rmKey, rmPart)
                => /\ rmRes.status = "KeyError"
                   /\ Len(rmRes.out.lines) = FirstUnknown(rmKey, rmPart) - 1
                   /\ \A i \in 1..Len(rmRes.out.lines) :
                        Len(rmRes.out.lines[i]) = 2

\* four assignment lines, a three-entry key store: the call failed on the
\* fourth line after emitting three
C11_Witness ==
    /\ Called
    /\ Loadable(rmKey, rmPart)
    /\ Len(rmKey.lines) = 3
    /\ DenseIds(rmKey) = 1..3
    /\ Len(rmPart.lines) = 4
    /\ rmRes.status = "KeyError"
    /\ Len(rmRes.out.lines) = 3

\* a key line that is not "<label> <integer>"
KeyLineMalformed(line) == Len(line) # 2 \/ ~IsInt(line[2])

\* C12: a key file with a line that does not split into exactly two tokens,
\* or whose dense-ID token is not an integer, makes remap raise; the line is
\* not skipped: when the assignment file loads, the error is ValueError and
\* the assignment file is left as it was.
C12_MalformedKeyLineRaises ==
    (/\ Called
     /\ rmKey.ex
     /\ \E j \in 1..Len(rmKey.lines) : KeyLineMalformed(rmKey.lines[j]))
        => /\ rmRes.status \in {"ValueError"} \cup OpenErrors
           /\ ClusterLabels(rmPart)
                => (rmRes.status = "ValueError" /\ rmRes.out = rmPart)

\* a good line, then a two-token line whose dense ID is not an integer,
\* then a one-field line, with a matching assignment file: the call raised
\* and left the file as it was
C12_Witness ==
    /\ Called
    /\ ClusterLabels(rmPart)
    /\ Len(rmPart.lines) = 1
    /\ Len(rmKey.lines) = 3
    /\ KeyLineOk(rmKey.lines[1])
    /\ ParseInt(rmKey.lines[1][2]) = 1
    /\ Len(rmKey.lines[2]) = 2
    /\ IsInt(rmKey.lines[2][1])
    /\ ~IsInt(rmKey.lines[2][2])
    /\ Len(rmKey.lines[3]) = 1
    /\ rmRes.status = "ValueError"
    /\ rmRes.out = rmPart

\* the assignment file holds one "<label> <cluster>" line per original line
CompleteOutput(part, out) ==
    /\ out.ex
    /\ Len(out.lines) = Len(part.lines)
    /\ \A i \in 1..Len(out.lines) :
         /\ Len(out.lines[i]) = 2
         /\ out.lines[i][2] = IntStr(ParseInt(part.lines[i][1]))

\* C19 as stated: after any call the assignment file is the complete
\* remapped output or is unchanged.
C19_AllOrNothing ==
    Called => \/ rmRes.out = rmPart
              \/ rmRes.status = "ok" /\ CompleteOutput(rmPart, rmRes.out)

\* C19 amended: after any call the assignment file is the complete remapped
\* output (the call returned), unchanged (the call raised while reading
\* either file), or cut down to the remapped lines of the positions before
\* the first position without a key entry (the lookup raised KeyError).
C19_CompleteUnchangedOrTruncated ==
    Called
        => \/ rmRes.status = "ok" /\ CompleteOutput(rmPart, rmRes.out)
           \/ /\ rmRes.status \in {"ValueError"} \cup OpenErrors
              /\ rmRes.out = rmPart
           \/ /\ rmRes.status = "KeyError"
              /\ Loadable(rmKey, rmPart)
              /\ UnknownPositions(rmKey, rmPart) # {}
              /\ rmRes.out.ex
              /\ Len(rmRes.out.lines) = FirstUnknown(rmKey, rmPart) - 1
              /\ \A i \in 1..Len(rmRes.out.lines) :
                   /\ Len(rmRes.out.lines[i]) = 2
                   /\ rmRes.out.lines[i][2]
                        = IntStr(ParseInt(rmPart.lines[i][1]))

\* a failed call that left some, but not all, lines behind
C19_Witness ==
    /\ Called
    /\ rmRes.status = "KeyError"
    /\ Len(rmRes.out.lines) > 0
    /\ Len(rmRes.out.lines) < Len(rmPart.lines)
    /\ rmRes.out # rmPart

====
